---- MODULE Spec2Model ----
(***************************************************************************)
(* Model of update_readme.py: the LeetCode stats tracker.                  *)
(*                                                                         *)
(* main() reads LEETCODE_USERNAME, fetches the statistics with one HTTP    *)
(* POST, extracts a flat record (parse_stats), renders it                  *)
(* (generate_readme_content, create_progress_bar) and overwrites README.md *)
(* (update_readme).  The print calls are taken to succeed.  The inputs are *)
(* what the run does not control: the environment variable, the response   *)
(* to the POST, the clock and the filesystem.                              *)
(***************************************************************************)
EXTENDS Integers, Sequences, FiniteSets, TLC

(***************************************************************************)
(* Python floats (IEEE-754 binary64, round to nearest, ties to even).      *)
(* A non-negative float is [m |-> bits, e |-> k]: the bits of the          *)
(* significand, most significant first and without leading zeros, and the  *)
(* exponent of the last bit; its value is Int(m) * 2^e.  Zero is <<>>.     *)
(***************************************************************************)
MantBits == 53

\* The significand is handled in limbs of LimbBits bits where the arithmetic
\* needs a carry or a remainder.
LimbBits == 16
LimbBase == 2 ^ LimbBits
\* limbs of the quotient's fraction: enough for MantBits + 2 significant bits
\* after the leading zeros of a quotient below one
FracLimbs == 5

RECURSIVE BitsToInt(_)
BitsToInt(bits) ==
    IF bits = <<>> THEN 0
    ELSE 2 * BitsToInt(SubSeq(bits, 1, Len(bits) - 1)) + bits[Len(bits)]

RECURSIVE IntToBits(_)
IntToBits(n) ==
    IF n = 0 THEN <<>> ELSE Append(IntToBits(n \div 2), n % 2)

AnyOne(bits) == \E i \in 1..Len(bits) : bits[i] = 1

StripZeros(bits) ==
    IF ~AnyOne(bits) THEN <<>>
    ELSE LET f == CHOOSE i \in 1..Len(bits) :
                      bits[i] = 1 /\ \A j \in 1..(i - 1) : bits[j] = 0
         IN  SubSeq(bits, f, Len(bits))

\* a nonzero significand without its trailing zeros, the exponent following
Canonical(bits, e) ==
    IF ~AnyOne(bits) THEN [m |-> <<>>, e |-> 0]
    ELSE LET l == CHOOSE i \in 1..Len(bits) :
                      bits[i] = 1 /\ \A j \in (i + 1)..Len(bits) : bits[j] = 0
         IN  [m |-> SubSeq(bits, 1, l), e |-> e + (Len(bits) - l)]

\* bits + 1, the carry running up from the last bit
IncBits(bits) ==
    IF \A i \in 1..Len(bits) : bits[i] = 1
    THEN <<1>> \o [i \in 1..Len(bits) |-> 0]
    ELSE LET z == CHOOSE i \in 1..Len(bits) :
                      bits[i] = 0 /\ \A j \in (i + 1)..Len(bits) : bits[j] = 1
         IN  [i \in 1..Len(bits) |->
                 IF i < z THEN bits[i] ELSE IF i = z THEN 1 ELSE 0]

BitsOfLimbs(limbs) ==
    [i \in 1..(LimbBits * Len(limbs)) |->
        (limbs[((i - 1) \div LimbBits) + 1]
            \div (2 ^ (LimbBits - 1 - ((i - 1) % LimbBits)))) % 2]

LimbsOfBits(bits) ==
    LET n   == (Len(bits) + LimbBits - 1) \div LimbBits
        pad == LimbBits * n - Len(bits)
    IN  [k \in 1..n |->
            BitsToInt([j \in 1..LimbBits |->
                LET i == LimbBits * (k - 1) + j
                IN  IF i <= pad THEN 0 ELSE bits[i - pad]])]

\* The nearest float to Int(bits) * 2^e (+ a nonzero tail below the last bit
\* when sticky), ties to even.
RoundBits(bits, e, sticky) ==
    LET b == StripZeros(bits) IN
    IF Len(b) <= MantBits THEN Canonical(b, e)
    ELSE LET keep == SubSeq(b, 1, MantBits)
             g    == b[MantBits + 1]
             st   == sticky \/ AnyOne(SubSeq(b, MantBits + 2, Len(b)))
             up   == g = 1 /\ (st \/ keep[MantBits] = 1)
         IN  Canonical(IF up THEN IncBits(keep) ELSE keep,
                       e + (Len(b) - MantBits))

FloatZero == [m |-> <<>>, e |-> 0]
FloatOne == [m |-> <<1>>, e |-> 0]

\* Long division, a limb of the quotient at a time: <<limbs, remainder>>
RECURSIVE DivLimbs(_, _, _)
DivLimbs(r, t, k) ==
    IF k = 0 THEN <<<<>>, r>>
    ELSE LET rest == DivLimbs((r * LimbBase) % t, t, k - 1)
         IN  <<<<(r * LimbBase) \div t>> \o rest[1], rest[2]>>

\* solved / total on ints (true division), total > 0, solved >= 0
FloatDiv(s, t) ==
    LET q == DivLimbs(s % t, t, FracLimbs)
    IN  RoundBits(IntToBits(s \div t) \o BitsOfLimbs(q[1]),
                  -(LimbBits * FracLimbs), q[2] # 0)

\* limbs * n + carry for a small int n >= 0
RECURSIVE MulLimbs(_, _, _)
MulLimbs(limbs, n, carry) ==
    IF Len(limbs) = 0 THEN <<carry>>
    ELSE LET p == limbs[Len(limbs)] * n + carry
         IN  Append(MulLimbs(SubSeq(limbs, 1, Len(limbs) - 1), n, p \div LimbBase),
                    p % LimbBase)

\* the bits of Int(bits) * n, exactly
MulBits(bits, n) == StripZeros(BitsOfLimbs(MulLimbs(LimbsOfBits(bits), n, 0)))

\* x * n for a float x and an int n >= 0 (the int converts exactly)
FloatMulInt(x, n) == RoundBits(MulBits(x.m, n), x.e, FALSE)

\* x < y on floats: by the position of the leading bit, then bit by bit
FloatValueLess(x, y) ==
    LET hx == Len(x.m) + x.e
        hy == Len(y.m) + y.e
        n  == IF Len(x.m) > Len(y.m) THEN Len(x.m) ELSE Len(y.m)
        bx(i) == IF i <= Len(x.m) THEN x.m[i] ELSE 0
        by(i) == IF i <= Len(y.m) THEN y.m[i] ELSE 0
    IN  IF x.m = <<>> THEN y.m # <<>>
        ELSE IF y.m = <<>> THEN FALSE
        ELSE IF hx # hy THEN hx < hy
        ELSE \E i \in 1..n : /\ bx(i) < by(i)
                             /\ \A j \in 1..(i - 1) : bx(j) = by(j)

\* min(a, b): Python returns the first argument unless the second is smaller
FloatMin(a, b) == IF FloatValueLess(b, a) THEN b ELSE a

\* the integer part and the fraction bits of Int(bits) * 2^e
IntPart(bits, e) ==
    IF e >= 0 THEN BitsToInt(bits) * (2 ^ e)
    ELSE IF Len(bits) + e <= 0 THEN 0
    ELSE BitsToInt(SubSeq(bits, 1, Len(bits) + e))

FracBits(bits, e) ==
    IF e >= 0 THEN <<>>
    ELSE [i \in 1..(-e) |->
             IF i + Len(bits) + e >= 1 THEN bits[i + Len(bits) + e] ELSE 0]

\* int(x): truncation
FloatToInt(x) == IntPart(x.m, x.e)

\* round(x * n) for the float's exact value x and an int n, ties to even
FloatScaledRound(x, n) ==
    LET y    == MulBits(x.m, n)
        ip   == IntPart(y, x.e)
        frac == FracBits(y, x.e)
        half == Len(frac) > 0 /\ frac[1] = 1
        rest == \E i \in 2..Len(frac) : frac[i] = 1
    IN  IF half /\ (rest \/ ip % 2 = 1) THEN ip + 1 ELSE ip

(***************************************************************************)
(* Python values, tagged.  A float that came from JSON text or from        *)
(* round(x, 2) is kept as its decimal, in thousandths.                     *)
(***************************************************************************)
JNull == [t |-> "null"]
JInt(n) == [t |-> "int", v |-> n]
JFloat(milli) == [t |-> "float", v |-> milli]
JStr(s) == [t |-> "str", v |-> s]
JList(items) == [t |-> "list", v |-> items]
JDict(f) == [t |-> "dict", v |-> f]
\* the f-string f"{x}%"
JPercent(x) == [t |-> "fstr", v |-> <<x, "%">>]

EmptyDict == JDict(<<>>)
EmptyList == JList(<<>>)
NA == JStr("N/A")

IsDict(x) == x.t = "dict"
IsNumber(x) == x.t \in {"int", "float"}

\* d.get(k, default) on a dict d
Get(d, k, default) == IF k \in DOMAIN d.v THEN d.v[k] ELSE default

\* bool(x)
Truthy(x) ==
    CASE x.t = "null" -> FALSE
      [] x.t \in {"int", "float"} -> x.v # 0
      [] x.t = "str" -> x.v # ""
      [] x.t = "list" -> Len(x.v) > 0
      [] x.t = "dict" -> DOMAIN x.v # {}
      [] OTHER -> TRUE

\* x == "literal"
StrEq(x, s) == x.t = "str" /\ x.v = s

\* round(x, 2) on a number: an int is returned as it is, a float becomes the
\* two-decimal value nearest to the exact value of the double
Round2(x) ==
    IF x.t = "int" THEN x
    ELSE JFloat(10 * FloatScaledRound(FloatDiv(x.v, 1000), 100))

\* what a function call does: returns a value or raises
Return(v) == [exc |-> "", val |-> v]
Raise(cls) == [exc |-> cls, val |-> JNull]
RaiseWith(cls, arg) == [exc |-> cls, val |-> arg]

(***************************************************************************)
(* create_progress_bar                                                     *)
(***************************************************************************)
DefaultLength == 20

Glyphs(n, g) == [i \in 1..n |-> g]

\* the ratio without its cap at 1.0
Percentage_Uncapped(solved, total) ==
    IF total > 0 THEN FloatDiv(solved, total) ELSE FloatZero

Percentage(solved, total) ==
    IF total > 0 THEN FloatMin(FloatDiv(solved, total), FloatOne) ELSE FloatZero

\* the bar with "empty = length", the filled glyphs not taken off
create_progress_bar_EmptyIsLength(solved, total, length) ==
    LET percentage == Percentage(solved, total)
        filled     == FloatToInt(FloatMulInt(percentage, length))
    IN  [bar      |-> Glyphs(filled, "filled") \o Glyphs(length, "empty"),
         pct_text |-> FloatScaledRound(FloatMulInt(percentage, 100), 10)]

\* the bar's glyphs, and the label f"{percentage * 100:.1f}%" as the number
\* of tenths of a percent it prints (1000 is "100.0%")
create_progress_bar(solved, total, length) ==
    LET percentage == Percentage(solved, total)
        filled     == FloatToInt(FloatMulInt(percentage, length))
        empty      == length - filled
    IN  [bar      |-> Glyphs(filled, "filled") \o Glyphs(empty, "empty"),
         pct_text |-> FloatScaledRound(FloatMulInt(percentage, 100), 10)]

(***************************************************************************)
(* parse_stats                                                             *)
(***************************************************************************)
InitialStats(user, profile) ==
    [username          |-> Get(user, "username", NA),
     ranking           |-> Get(profile, "ranking", NA),
     total_solved      |-> JInt(0),
     easy_solved       |-> JInt(0),
     medium_solved     |-> JInt(0),
     hard_solved       |-> JInt(0),
     contest_rating    |-> NA,
     contests_attended |-> NA,
     top_percentage    |-> NA]

\* the body of the loop over submit_stats, for one item that is a dict
CountItem(stats, item) ==
    LET difficulty == Get(item, "difficulty", JStr(""))
        count      == Get(item, "count", JInt(0))
    IN  IF StrEq(difficulty, "All") THEN [stats EXCEPT !.total_solved = count]
        ELSE IF StrEq(difficulty, "Easy") THEN [stats EXCEPT !.easy_solved = count]
        ELSE IF StrEq(difficulty, "Medium") THEN [stats EXCEPT !.medium_solved = count]
        ELSE IF StrEq(difficulty, "Hard") THEN [stats EXCEPT !.hard_solved = count]
        ELSE stats

\* for item in submit_stats, from the i-th item on
RECURSIVE CountLoop(_, _, _)
CountLoop(stats, items, i) ==
    IF i > Len(items) THEN Return(stats)
    ELSE IF ~IsDict(items[i]) THEN Raise("AttributeError")
    ELSE CountLoop(CountItem(stats, items[i]), items, i + 1)

\* the loop of lines 83-94 over whatever acSubmissionNum holds
CountAll(stats, submit_stats) ==
    CASE submit_stats.t = "list" -> CountLoop(stats, submit_stats.v, 1)
      [] submit_stats.t = "dict" ->
            IF DOMAIN submit_stats.v = {} THEN Return(stats) ELSE Raise("AttributeError")
      [] submit_stats.t = "str" ->
            IF submit_stats.v = "" THEN Return(stats) ELSE Raise("AttributeError")
      [] OTHER -> Raise("TypeError")

\* the block under "if contest:"
ContestStats(stats, contest) ==
    IF ~Truthy(contest) THEN Return(stats)
    ELSE IF ~IsDict(contest) THEN Raise("AttributeError")
    ELSE LET rating  == Get(contest, "rating", JInt(0))
             top_pct == Get(contest, "topPercentage", JNull)
         IN  IF ~IsNumber(rating) THEN Raise("TypeError")
             ELSE IF Truthy(top_pct) /\ ~IsNumber(top_pct) THEN Raise("TypeError")
             ELSE Return([stats EXCEPT
                     !.contest_rating = Round2(rating),
                     !.contests_attended = Get(contest, "attendedContestsCount", JInt(0)),
                     !.top_percentage = IF Truthy(top_pct)
                                        THEN JPercent(Round2(top_pct)) ELSE NA])

parse_stats(data) ==
    IF ~IsDict(data) THEN Raise("AttributeError")
    ELSE
    LET user    == Get(data, "matchedUser", EmptyDict)
        contest == Get(data, "userContestRanking", EmptyDict)
    IN  IF ~IsDict(user) THEN Raise("AttributeError")
        ELSE
        LET submitStats == Get(user, "submitStats", EmptyDict) IN
        IF ~IsDict(submitStats) THEN Raise("AttributeError")
        ELSE
        LET submit_stats == Get(submitStats, "acSubmissionNum", EmptyList)
            profile      == Get(user, "profile", EmptyDict)
        IN  IF ~IsDict(profile) THEN Raise("AttributeError")
            ELSE
            LET counted == CountAll(InitialStats(user, profile), submit_stats) IN
            IF counted.exc # "" THEN counted
            ELSE ContestStats(counted.val, contest)

(***************************************************************************)
(* generate_readme_content                                                 *)
(***************************************************************************)
EasyTotal == 830
MediumTotal == 1750
HardTotal == 750

\* format(n, ","): the digits in groups of three
RECURSIVE ThousandsGroups(_)
ThousandsGroups(n) ==
    IF n < 1000 THEN <<n>> ELSE Append(ThousandsGroups(n \div 1000), n % 1000)

\* f"{x:,}"
FormatComma(x) ==
    CASE x.t = "int" -> Return([t |-> "fstr", v |-> ThousandsGroups(x.v)])
      [] x.t = "float" -> Return([t |-> "fstr", v |-> <<x.v>>])
      [] x.t = "str" -> Raise("ValueError")
      [] OTHER -> Raise("TypeError")

\* solved / total needs a number
BarFor(solved, total) ==
    IF solved.t # "int" THEN Raise("TypeError")
    ELSE Return(create_progress_bar(solved.v, total, DefaultLength))

\* the values interpolated into the template, in the template's order
generate_readme_content(stats, now) ==
    LET easy_bar   == BarFor(stats.easy_solved, EasyTotal)
        medium_bar == BarFor(stats.medium_solved, MediumTotal)
        hard_bar   == BarFor(stats.hard_solved, HardTotal)
        ranking    == FormatComma(stats.ranking)
    IN  IF easy_bar.exc # "" THEN easy_bar
        ELSE IF medium_bar.exc # "" THEN medium_bar
        ELSE IF hard_bar.exc # "" THEN hard_bar
        ELSE IF ranking.exc # "" THEN ranking
        ELSE Return(<<stats.username, stats.username, stats.username,
                      ranking.val, stats.total_solved,
                      stats.easy_solved, easy_bar.val,
                      stats.medium_solved, medium_bar.val,
                      stats.hard_solved, hard_bar.val,
                      stats.contest_rating, stats.contests_attended,
                      stats.top_percentage, now>>)

(***************************************************************************)
(* fetch_leetcode_stats: net is what the network does with the one POST,   *)
(* an exception of requests or a response.                                 *)
(***************************************************************************)
NotJson == [json |-> FALSE, value |-> JNull]
Json(v) == [json |-> TRUE, value |-> v]

\* "errors" in data
ErrorsIn(data) ==
    CASE data.t = "dict" -> Return("errors" \in DOMAIN data.v)
      [] data.t = "list" -> Return(\E i \in 1..Len(data.v) : StrEq(data.v[i], "errors"))
      [] OTHER -> Raise("TypeError")

\* "return data": the whole decoded body
DataOf_WholeBody(data) == Return(data)

\* data["data"]
DataOf(data) ==
    IF data.t = "dict"
    THEN IF "data" \in DOMAIN data.v THEN Return(data.v["data"]) ELSE Raise("KeyError")
    ELSE Raise("TypeError")

\* the fetcher without its check of the status code
fetch_leetcode_stats_NoStatusCheck(username, net) ==
    IF net.kind = "raise" THEN Raise(net.cls)
    ELSE IF ~net.body.json THEN Raise("JSONDecodeError")
    ELSE LET data   == net.body.value
             errors == ErrorsIn(data)
         IN  IF errors.exc # "" THEN errors
             ELSE IF errors.val
             THEN RaiseWith("Exception", <<"GraphQL Error", data.v["errors"]>>)
             ELSE DataOf(data)

fetch_leetcode_stats(username, net) ==
    IF net.kind = "raise" THEN Raise(net.cls)
    ELSE IF net.status_code # 200
    THEN RaiseWith("Exception", <<"Failed to fetch data", net.status_code>>)
    ELSE IF ~net.body.json THEN Raise("JSONDecodeError")
    ELSE LET data   == net.body.value
             errors == ErrorsIn(data)
         IN  IF errors.exc # "" THEN errors
             ELSE IF errors.val
             THEN RaiseWith("Exception", <<"GraphQL Error", data.v["errors"]>>)
             ELSE DataOf(data)

(***************************************************************************)
(* update_readme: fs is what the filesystem does.  open(filepath, "w")     *)
(* either fails and leaves the file alone, or truncates it; the write then *)
(* puts the whole content there, or fails after fs.written of its cells.   *)
(* Returns the file afterwards, whether it was opened, and the exception.  *)
(***************************************************************************)
\* the writer opening the file with mode "a"
update_readme_Append(file, content, fs) ==
    CASE fs.kind = "open_fails" ->
            [exc |-> "OSError", file |-> file, opened |-> FALSE]
      [] fs.kind = "write_fails" ->
            [exc |-> "OSError", file |-> file \o SubSeq(content, 1, fs.written),
             opened |-> TRUE]
      [] OTHER ->
            [exc |-> "", file |-> file \o content, opened |-> TRUE]

update_readme(file, content, fs) ==
    CASE fs.kind = "open_fails" ->
            [exc |-> "OSError", file |-> file, opened |-> FALSE]
      [] fs.kind = "write_fails" ->
            [exc |-> "OSError", file |-> SubSeq(content, 1, fs.written), opened |-> TRUE]
      [] OTHER ->
            [exc |-> "", file |-> content, opened |-> TRUE]

(***************************************************************************)
(* main                                                                    *)
(***************************************************************************)
\* "if username is None"
UsernameMissing_NoneOnly(username) == username.t = "null"

\* "if not username"
UsernameMissing(username) == ~Truthy(username)

\* the classes "except Exception" catches: every exception a stage raises
ExceptionClasses ==
    {"Exception", "AttributeError", "TypeError", "ValueError", "KeyError",
     "JSONDecodeError", "OSError", "ConnectionError", "Timeout"}

\* "except ValueError"
Caught_ValueErrorOnly(cls) == cls \in {"ValueError", "JSONDecodeError"}

Caught(cls) == cls \in ExceptionClasses

(***************************************************************************)
(* The inputs: the environment, the responses, the clock, the filesystem.  *)
(***************************************************************************)
MaxNow == 2

Opt(k, values) == {<<>>} \cup {k :> v : v \in values}

Item(difficulty, count) == JDict([difficulty |-> JStr(difficulty), count |-> JInt(count)])

Breakdowns ==
    { <<>>,
      <<Item("All", 1500)>>,
      <<Item("All", 500), Item("Easy", 300), Item("Medium", 150), Item("Hard", 50)>>,
      <<Item("All", 3400), Item("Easy", 900), Item("Medium", 1750), Item("Hard", 0),
        Item("Other", 7), JDict([difficulty |-> JStr("Hard")]), JDict([count |-> JInt(3)])>>,
      <<JDict([difficulty |-> JStr("Easy"), count |-> JNull])>> }

SubmitValues ==
    {JNull, EmptyDict}
        \cup {JDict("acSubmissionNum" :> a) : a \in {JNull} \cup {JList(l) : l \in Breakdowns}}

ProfileValues ==
    {JNull, EmptyDict} \cup {JDict("ranking" :> r) : r \in {JNull, JInt(1234567)}}

MatchedUsers ==
    {JNull} \cup
    {JDict(u @@ p @@ s) : u \in Opt("username", {JStr("alice")}),
                          p \in Opt("profile", ProfileValues),
                          s \in Opt("submitStats", SubmitValues)}

Contests ==
    {JNull} \cup
    {JDict(r @@ a @@ p) : r \in Opt("rating", {JNull, JFloat(1850456)}),
                          a \in Opt("attendedContestsCount", {JNull, JInt(12)}),
                          p \in Opt("topPercentage", {JNull, JInt(0), JFloat(15678)})}

DataSet ==
    {JDict(m @@ c) : m \in Opt("matchedUser", MatchedUsers),
                     c \in Opt("userContestRanking", Contests)}

ErrorPayload == JList(<<JDict([message |-> JStr("That user does not exist.")])>>)

Bodies ==
    {Json(JDict("data" :> d)) : d \in DataSet \cup {JNull}}
        \cup {Json(JDict(("errors" :> ErrorPayload) @@ d)) : d \in Opt("data", {JNull, EmptyDict})}
        \cup {Json(EmptyDict), Json(JNull), Json(EmptyList), NotJson}

NetOutcomes ==
    {[kind |-> "raise", cls |-> c] : c \in {"ConnectionError", "Timeout"}}
        \cup {[kind |-> "response", status_code |-> 200, body |-> b] : b \in Bodies}
        \cup {[kind |-> "response", status_code |-> s, body |-> b] :
                 s \in {403, 500}, b \in {NotJson, Json(JDict("data" :> EmptyDict))}}

FsOutcomes(content) ==
    {[kind |-> "ok"], [kind |-> "open_fails"]}
        \cup {[kind |-> "write_fails", written |-> k] : k \in 0..(Len(content) - 1)}

Environments == {JNull, JStr(""), JStr("alice")}

\* README.md as the previous run left it
OldContent == <<JStr("previous README")>>

(***************************************************************************)
(* The state of one run of main(), and of one use of create_progress_bar.  *)
(***************************************************************************)
VARIABLES
    env,             \* LEETCODE_USERNAME; JNull when it is unset
    pc,              \* where main() is
    username,        \* main's locals; JNull until assigned
    raw_data,
    stats,
    readme_content,
    response,        \* what the network did with the POST
    posts,           \* the HTTP POSTs issued, as the usernames they carried
    file,            \* README.md's content
    opens,           \* how many times README.md was opened for writing
    trace,           \* the stages entered, in order
    failed,          \* the stage that raised, "" when none has
    caught,          \* what the except clause caught: [exc, val]
    escaped,         \* the class of an exception that left main(), "" when none
    exit_code,       \* <<>> until main() returns, then <<code>>
    bar_pc,          \* create_progress_bar on its own: "off", "args", "called"
    bar_in,          \* its arguments
    bar_out,         \* what it returned
    bar_prev         \* what it returned for solved - 1 (bar_out when there is none)

mainvars == <<env, pc, username, raw_data, stats, readme_content, response, posts,
              file, opens, trace, failed, caught, escaped, exit_code>>
barvars  == <<bar_pc, bar_in, bar_out, bar_prev>>
vars     == <<mainvars, barvars>>

NoBar == [bar |-> <<>>, pct_text |-> 0]
NoCatch == [exc |-> "", val |-> JNull]
NoResponse == [kind |-> "none"]

MainStart ==
    /\ pc = "START"
    /\ username = JNull
    /\ raw_data = JNull
    /\ stats = JNull
    /\ readme_content = <<>>
    /\ response = NoResponse
    /\ posts = <<>>
    /\ file = OldContent
    /\ opens = 0
    /\ trace = <<>>
    /\ failed = ""
    /\ caught = NoCatch
    /\ escaped = ""
    /\ exit_code = <<>>

BarOff ==
    /\ bar_pc = "off"
    /\ bar_in = [solved |-> 0, total |-> 0, length |-> 0]
    /\ bar_out = NoBar
    /\ bar_prev = NoBar

Init ==
    /\ env \in Environments
    /\ MainStart
    /\ BarOff

\* A stage raised r: the except clause of main() prints it and returns 1; an
\* exception it does not catch leaves main().
Fail(stage, r) ==
    /\ failed' = stage
    /\ IF Caught(r.exc)
       THEN /\ caught' = r
            /\ exit_code' = <<1>>
            /\ pc' = "FAILED"
            /\ escaped' = escaped
       ELSE /\ escaped' = r.exc
            /\ pc' = "ESCAPED"
            /\ UNCHANGED <<caught, exit_code>>

\* lines 176-183
CheckUsername ==
    /\ pc = "START"
    /\ username' = env
    /\ trace' = Append(trace, "username check")
    /\ IF UsernameMissing(env)
       THEN /\ pc' = "FAILED"
            /\ exit_code' = <<1>>
       ELSE /\ pc' = "USERNAME_CHECKED"
            /\ exit_code' = exit_code
    /\ UNCHANGED <<env, raw_data, stats, readme_content, response, posts, file, opens,
                   failed, caught, escaped, barvars>>

\* line 189
Fetch ==
    /\ pc = "USERNAME_CHECKED"
    /\ \E net \in NetOutcomes :
          LET r == fetch_leetcode_stats(username, net) IN
          /\ response' = net
          /\ posts' = Append(posts, username)
          /\ trace' = Append(trace, "fetch")
          /\ IF r.exc = ""
             THEN /\ raw_data' = r.val
                  /\ pc' = "FETCHED"
                  /\ UNCHANGED <<failed, caught, escaped, exit_code>>
             ELSE /\ Fail("fetch", r)
                  /\ raw_data' = raw_data
    /\ UNCHANGED <<env, username, stats, readme_content, file, opens, barvars>>

\* line 190
Parse ==
    /\ pc = "FETCHED"
    /\ \E r \in {parse_stats(raw_data)} :
          /\ trace' = Append(trace, "parse")
          /\ IF r.exc = ""
             THEN /\ stats' = r.val
                  /\ pc' = "PARSED"
                  /\ UNCHANGED <<failed, caught, escaped, exit_code>>
             ELSE /\ Fail("parse", r)
                  /\ stats' = stats
    /\ UNCHANGED <<env, username, raw_data, readme_content, response, posts, file, opens,
                   barvars>>

\* line 197
Render ==
    /\ pc = "PARSED"
    /\ \E now \in 1..MaxNow :
          LET r == generate_readme_content(stats, now) IN
          /\ trace' = Append(trace, "render")
          /\ IF r.exc = ""
             THEN /\ readme_content' = r.val
                  /\ pc' = "RENDERED"
                  /\ UNCHANGED <<failed, caught, escaped, exit_code>>
             ELSE /\ Fail("render", r)
                  /\ readme_content' = readme_content
    /\ UNCHANGED <<env, username, raw_data, stats, response, posts, file, opens, barvars>>

\* line 198
Write ==
    /\ pc = "RENDERED"
    /\ \E fs \in FsOutcomes(readme_content) :
          LET r == update_readme(file, readme_content, fs) IN
          /\ trace' = Append(trace, "write")
          /\ file' = r.file
          /\ opens' = IF r.opened THEN opens + 1 ELSE opens
          /\ IF r.exc = ""
             THEN /\ pc' = "WRITTEN"
                  /\ UNCHANGED <<failed, caught, escaped, exit_code>>
             ELSE Fail("write", [exc |-> r.exc, val |-> JNull])
    /\ UNCHANGED <<env, username, raw_data, stats, readme_content, response, posts,
                   barvars>>

\* line 200
ReturnZero ==
    /\ pc = "WRITTEN"
    /\ pc' = "DONE"
    /\ exit_code' = <<0>>
    /\ UNCHANGED <<env, username, raw_data, stats, readme_content, response, posts,
                   file, opens, trace, failed, caught, escaped, barvars>>

Next ==
    \/ CheckUsername
    \/ Fetch
    \/ Parse
    \/ Render
    \/ Write
    \/ ReturnZero

Spec == Init /\ [][Next]_vars

(***************************************************************************)
(* create_progress_bar on its own, over all small arguments.               *)
(***************************************************************************)
MaxSolved == 16
MaxTotal == 22
MaxLength == 22

BarInit ==
    /\ env = JNull
    /\ MainStart
    /\ bar_pc = "args"
    /\ bar_in \in [solved : 0..MaxSolved, total : 0..MaxTotal, length : 0..MaxLength]
    /\ bar_out = NoBar
    /\ bar_prev = NoBar

BarCall ==
    /\ bar_pc = "args"
    /\ bar_pc' = "called"
    /\ bar_out' = create_progress_bar(bar_in.solved, bar_in.total, bar_in.length)
    /\ bar_prev' = bar_out'
    /\ UNCHANGED <<bar_in, mainvars>>

\* the same call with one more problem solved
BarCallNext ==
    /\ bar_pc = "called"
    /\ bar_in.solved < MaxSolved
    /\ bar_in' = [bar_in EXCEPT !.solved = @ + 1]
    /\ bar_prev' = bar_out
    /\ bar_out' = create_progress_bar(bar_in'.solved, bar_in'.total, bar_in'.length)
    /\ UNCHANGED <<bar_pc, mainvars>>

BarNext ==
    \/ BarCall
    \/ BarCallNext

BarSpec == BarInit /\ [][BarNext]_vars
(***************************************************************************)
(* The properties.                                                         *)
(***************************************************************************)
StageOrder == <<"username check", "fetch", "parse", "render", "write">>

IsPrefix(s, t) == Len(s) <= Len(t) /\ s = SubSeq(t, 1, Len(s))

Entered(stage) == \E i \in 1..Len(trace) : trace[i] = stage

Terminated == pc \in {"DONE", "FAILED"}

\* C1: when main() runs with LEETCODE_USERNAME unset or empty it returns 1,
\* and in that run no POST is issued and README.md is never opened.
C1_NoUsernameNoNetwork ==
    (env \in {JNull, JStr("")} /\ pc # "START") =>
        /\ pc = "FAILED"
        /\ exit_code = <<1>>
        /\ posts = <<>>
        /\ response = NoResponse
        /\ opens = 0
        /\ file = OldContent

C1_Witness == env = JStr("") /\ pc = "FAILED" /\ exit_code = <<1>>

\* C2: README.md is opened for writing only after fetch, extraction and
\* rendering have all succeeded; when the fetcher fails (as it does on every
\* status other than 200, 403 among them) or extraction or rendering fails,
\* main() returns 1 and README.md is as it was.
C2_WriteOnlyAfterRender ==
    /\ opens > 0 =>
          /\ IsPrefix(<<"username check", "fetch", "parse", "render", "write">>, trace)
          /\ failed \notin {"fetch", "parse", "render"}
          /\ IsDict(raw_data)
          /\ stats # JNull
          /\ readme_content # <<>>
    /\ failed \in {"fetch", "parse", "render"} =>
          /\ pc = "FAILED"
          /\ exit_code = <<1>>
          /\ opens = 0
          /\ file = OldContent
    /\ (response.kind = "response" /\ response.status_code # 200) => failed = "fetch"

C2_Witness ==
    /\ response.kind = "response"
    /\ response.status_code = 403
    /\ pc = "FAILED"
    /\ file = OldContent

\* C3, as stated: at the end of every run, the runs in which the writer
\* fails after opening the file included, README.md holds its content from
\* before the run or the complete rendered document.
C3_OldOrComplete ==
    Terminated => \/ file = OldContent
                  \/ readme_content # <<>> /\ file = readme_content

\* C3, amended: README.md is touched only after the document was rendered;
\* at the end of a run it holds its content from before the run or the
\* complete document, except that a write that failed after the file was
\* opened leaves a proper prefix of the document and main() returns 1.
C3_OldOrCompleteOrFailedWrite ==
    /\ opens > 0 => readme_content # <<>>
    /\ opens = 0 => file = OldContent
    /\ Terminated =>
          /\ \/ file = OldContent
             \/ readme_content # <<>> /\ file = readme_content
             \/ /\ failed = "write"
                /\ opens = 1
                /\ exit_code = <<1>>
                /\ \E k \in 0..(Len(readme_content) - 1) :
                       file = SubSeq(readme_content, 1, k)
          /\ exit_code = <<0>> => file = readme_content
          /\ failed # "write" => file \in {OldContent, readme_content}

C3_Witness ==
    /\ pc = "FAILED"
    /\ failed = "write"
    /\ opens = 1
    /\ file # OldContent
    /\ file # readme_content

C4_Stages ==
    /\ IsPrefix(trace, StageOrder)
    /\ escaped = ""
    /\ pc # "ESCAPED"
    /\ exit_code \in {<<>>, <<0>>, <<1>>}
    /\ Terminated <=> exit_code # <<>>
    /\ exit_code = <<0>> <=> pc = "DONE"
    /\ pc = "DONE" =>
          /\ trace = StageOrder
          /\ failed = ""
          /\ opens = 1
          /\ file = readme_content
    /\ failed # "" =>
          /\ exit_code = <<1>>
          /\ failed = trace[Len(trace)]
          /\ caught.exc # ""
    /\ exit_code = <<1>> =>
          \/ failed # ""
          \/ env \in {JNull, JStr("")} /\ trace = <<"username check">>

\* where main() is after n stages were entered and none has failed
PcAfter(n) ==
    <<"START", "USERNAME_CHECKED", "FETCHED", "PARSED", "RENDERED", "WRITTEN">>[n + 1]

\* C4: every run of main() ends in DONE or FAILED having passed through the
\* stages in the order username check, fetch, parse, render, write: until it
\* has returned, main() stands where the next stage in that order starts (the
\* position is the whole guard of that stage's action, and what the stage
\* chooses from is not empty), and each step enters that stage or returns.
\* It returns 0 exactly when the four stages succeeded and the file was
\* written, 1 when the username is missing or a stage fails, and no stage's
\* failure leaves main().
C4_LinearRun ==
    /\ C4_Stages
    /\ ~Terminated =>
          /\ pc = PcAfter(Len(trace))
          /\ pc = "USERNAME_CHECKED" => NetOutcomes # {}
          /\ pc = "PARSED" => 1..MaxNow # {}
          /\ pc = "RENDERED" => FsOutcomes(readme_content) # {}

C4_Witness == pc = "DONE" /\ exit_code = <<0>> /\ trace = StageOrder

FetchCalled == response # NoResponse
FetchReturned == Entered("fetch") /\ failed # "fetch"
GotResponse == response.kind = "response"
BodyIsObject == response.body.json /\ IsDict(response.body.value)
BodyHasKey(k) == BodyIsObject /\ k \in DOMAIN response.body.value.v

C5_PostsAndFailures ==
    /\ Len(posts) = (IF FetchCalled THEN 1 ELSE 0)
    /\ (GotResponse /\ response.status_code # 200) =>
          /\ failed = "fetch"
          /\ caught = RaiseWith("Exception",
                                <<"Failed to fetch data", response.status_code>>)
    /\ (GotResponse /\ response.status_code = 200 /\ BodyHasKey("errors")) =>
          /\ failed = "fetch"
          /\ caught = RaiseWith("Exception",
                                <<"GraphQL Error", response.body.value.v["errors"]>>)

\* C5, as stated: one POST and no more; the `data` object is returned
\* whenever the status is 200 and the body (read here as a JSON object, the
\* reading kindest to the claim) has no `errors` key; a status other than 200
\* fails with the status code, whatever the body; an `errors` key fails with
\* the payload.
C5_ReturnsDataWithoutErrors ==
    /\ C5_PostsAndFailures
    /\ (GotResponse /\ response.status_code = 200 /\ BodyIsObject
            /\ ~BodyHasKey("errors")) =>
          /\ FetchReturned
          /\ BodyHasKey("data")
          /\ raw_data = response.body.value.v["data"]

\* C5, amended: one POST and no more; the `data` object is returned whenever
\* the status is 200 and the body decodes to a JSON object that has a `data`
\* key and no `errors` key (a 200 body that is not JSON, is not an object or
\* has neither key makes the fetcher fail with the decoder's or the lookup's
\* error); the failures on other statuses and on `errors` are as stated.
C5_ReturnsDataOfObject ==
    /\ C5_PostsAndFailures
    /\ (GotResponse /\ response.status_code = 200 /\ ~BodyHasKey("errors")) =>
          IF BodyHasKey("data")
          THEN /\ FetchReturned
               /\ raw_data = response.body.value.v["data"]
          ELSE /\ failed = "fetch"
               /\ caught.exc \in {"JSONDecodeError", "TypeError", "KeyError"}

C5_Witness ==
    /\ GotResponse
    /\ response.status_code = 200
    /\ FetchReturned
    /\ IsDict(raw_data)
    /\ "matchedUser" \in DOMAIN raw_data.v
    /\ Len(posts) = 1

\* a record whose fields are what the API sends for them or their defaults
IsCount(x) == x.t = "int"
DefaultsOrValues(s) ==
    /\ s.ranking = NA \/ s.ranking.t = "int"
    /\ IsCount(s.total_solved) /\ IsCount(s.easy_solved)
    /\ IsCount(s.medium_solved) /\ IsCount(s.hard_solved)

\* C6: for every record parse_stats returns from missing upstream data, the
\* fields left at the sentinel "N/A" included, generate_readme_content
\* returns a document without raising.
C6_RenderNeverRaises ==
    (Entered("render") /\ DefaultsOrValues(stats)) => failed # "render"

\* C7: parse_stats never raises, whichever of matchedUser, submitStats,
\* acSubmissionNum, profile, ranking, userContestRanking, rating,
\* attendedContestsCount and topPercentage are absent or null in `data`.
C7_ParseNeverRaises ==
    (Entered("parse") /\ raw_data \in DataSet) => failed # "parse"

WithContest(data, contest) ==
    JDict(data.v @@ ("userContestRanking" :> contest))

SameProfileFields(s, u) ==
    /\ s.username = u.username
    /\ s.ranking = u.ranking
    /\ s.total_solved = u.total_solved
    /\ s.easy_solved = u.easy_solved
    /\ s.medium_solved = u.medium_solved
    /\ s.hard_solved = u.hard_solved

ContestFieldsDefault ==
    /\ stats.contest_rating = NA
    /\ stats.contests_attended = NA
    /\ stats.top_percentage = NA
    /\ \A c \in Contests :
          LET r == parse_stats(WithContest(raw_data, c))
          IN  r.exc = "" => SameProfileFields(stats, r.val)

LacksContest ==
    /\ Entered("parse")
    /\ raw_data \in DataSet
    /\ "userContestRanking" \notin DOMAIN raw_data.v

\* C10: parse_stats given a `data` object without userContestRanking does
\* not fail and returns contest_rating, contests_attended and top_percentage
\* at "N/A", the username, ranking and solved counts being what they are with
\* a contest object present.
C10_NoContestGivesDefaults ==
    LacksContest => failed # "parse" /\ ContestFieldsDefault

\* What holds of C10's case: whenever parse_stats returns.
C10_NoContestGivesDefaultsWhenReturned ==
    (LacksContest /\ failed # "parse") => ContestFieldsDefault

FilledCount(b) == Cardinality({i \in 1..Len(b.bar) : b.bar[i] = "filled"})
EmptyCount(b) == Cardinality({i \in 1..Len(b.bar) : b.bar[i] = "empty"})

\* floor(length * min(solved / total, 1)) in exact arithmetic
ExactFloor(solved, total, length) ==
    (length * (IF solved < total THEN solved ELSE total)) \div total

BarCalled == bar_pc = "called" /\ bar_in.total > 0

\* C8: for solved >= 0, total > 0 and length >= 0 the bar has length glyphs,
\* the filled ones first, and the filled count does not decrease as solved
\* grows; it is the floor of length * min(solved / total, 1) as the floats
\* give it, which is the exact floor or, where rounding leaves the product
\* just under an integer, one less.
C8_BarLengthAndMonotone ==
    BarCalled =>
        /\ Len(bar_out.bar) = bar_in.length
        /\ FilledCount(bar_out) + EmptyCount(bar_out) = bar_in.length
        /\ \A i \in 1..Len(bar_out.bar) :
              bar_out.bar[i] = (IF i <= FilledCount(bar_out) THEN "filled" ELSE "empty")
        /\ FilledCount(bar_prev) <= FilledCount(bar_out)
        /\ FilledCount(bar_out) \in
              {ExactFloor(bar_in.solved, bar_in.total, bar_in.length) - 1,
               ExactFloor(bar_in.solved, bar_in.total, bar_in.length)}

C8_Witness ==
    /\ BarCalled
    /\ bar_in.solved < bar_in.total
    /\ bar_prev # bar_out
    /\ FilledCount(bar_prev) < FilledCount(bar_out)
    /\ EmptyCount(bar_out) > 0

\* The floats at work: 15 of 22 on a bar of 22 glyphs fills 14.
C8_RoundingWitness ==
    /\ BarCalled
    /\ bar_in = [solved |-> 15, total |-> 22, length |-> 22]
    /\ FilledCount(bar_out) = 14

\* C9: for total > 0, solved >= total gives the label 100.0% and a bar of
\* filled glyphs only, never more than length of them; solved = 0 gives the
\* label 0.0% and a bar of empty glyphs only.
C9_FullAndEmptyBars ==
    BarCalled =>
        /\ bar_in.solved >= bar_in.total =>
              /\ bar_out.pct_text = 1000
              /\ bar_out.bar = Glyphs(bar_in.length, "filled")
        /\ bar_in.solved = 0 =>
              /\ bar_out.pct_text = 0
              /\ bar_out.bar = Glyphs(bar_in.length, "empty")
        /\ FilledCount(bar_out) <= bar_in.length

C9_Witness ==
    /\ BarCalled
    /\ bar_in.solved > bar_in.total
    /\ bar_in.length = DefaultLength
    /\ bar_out.pct_text = 1000
    /\ FilledCount(bar_out) = DefaultLength

====
